---- MODULE Spec2Model ----
\* A state-machine model of src/app.py: the Streamlit asset portal that keeps
\* its inventory in a Google Sheet.  Every user interaction reruns the script
\* from the top: check_password, init_connection, three load_data calls, then
\* the page selected in the sidebar.  The sheet is shared with other clients,
\* so a run is split at its I/O: the read (Begin) and the page's write.
EXTENDS Integers, Sequences, FiniteSets, TLC

VARIABLES
    session_state,  \* st.session_state: a function from the keys present to values
    menu,           \* the sidebar radio's selection
    secrets,        \* whether st.secrets / the spreadsheet can be opened
    sheet1,         \* worksheet "Sheet1" as get_all_values returns it
    maint_log,      \* worksheet "Maintenance_Log": [exists, grid]
    prev_log,       \* worksheet "Preventive_Log": [exists, grid]
    pc,             \* "idle", "loaded" (a run between line 130 and its page), "rerun"
    click,          \* the button whose press started the run in progress
    form,           \* the reg_form inputs of the run in progress
    inv_ws,         \* whether init_connection returned a worksheet handle
    data_inv,       \* the grid the run's load_data(inv_ws) read
    df_inv,         \* the three DataFrames of the latest run
    df_maint,
    df_prev,
    edits,          \* st.data_editor's edited cells: <<row, column>> -> value
    exc,            \* the unhandled exception that ended the latest run
    shown,          \* what the latest run rendered
    io,             \* the spreadsheet operations the latest run performed
    authed,         \* what check_password returned in the latest run
    written,        \* the cells of Sheet1 the latest update() wrote
    writes          \* number of form submissions and syncs so far

vars == <<session_state, menu, secrets, sheet1, maint_log, prev_log, pc, click,
          form, inv_ws, data_inv, df_inv, df_maint, df_prev, edits, exc, shown,
          io, authed, written, writes>>

-----------------------------------------------------------------------------
\* Bounds of the model.

MaxWrites == 1      \* form submissions and syncs in one behaviour
MaxEdits == 1       \* cells edited in the data editor at one time

-----------------------------------------------------------------------------
\* Text.  A cell is a string; a character is a string of length 1.

UpperChars == "ABCDEFGHIJKLMNOPQRSTUVWXYZ"
LowerChars == "abcdefghijklmnopqrstuvwxyz"
Digits == "0123456789"

CharAt(s, i) == SubSeq(s, i, i)

Chars(alphabet) == {CharAt(alphabet, i) : i \in 1..Len(alphabet)}

IndexIn(alphabet, c) == CHOOSE i \in 1..Len(alphabet) : CharAt(alphabet, i) = c

LowerOf == [c \in Chars(UpperChars) |-> CharAt(LowerChars, IndexIn(UpperChars, c))]

DigitValue == [c \in Chars(Digits) |-> IndexIn(Digits, c) - 1]

\* str.lower()
RECURSIVE Lower(_)
Lower(s) ==
    IF Len(s) = 0 THEN ""
    ELSE LET c == CharAt(s, 1)
         IN  (IF c \in DOMAIN LowerOf THEN LowerOf[c] ELSE c) \o Lower(SubSeq(s, 2, Len(s)))

\* str.strip()
RECURSIVE LStrip(_)
LStrip(s) ==
    IF Len(s) > 0 /\ CharAt(s, 1) = " " THEN LStrip(SubSeq(s, 2, Len(s))) ELSE s

RECURSIVE RStrip(_)
RStrip(s) ==
    IF Len(s) > 0 /\ CharAt(s, Len(s)) = " " THEN RStrip(SubSeq(s, 1, Len(s) - 1)) ELSE s

Strip(s) == RStrip(LStrip(s))

\* k in s
Contains(k, s) ==
    \E i \in 1..(Len(s) - Len(k) + 1) : SubSeq(s, i, i + Len(k) - 1) = k

\* The text of a whole number, as the sheet shows a number cell.
RECURSIVE FormatNat(_)
FormatNat(n) ==
    IF n < 10 THEN CharAt(Digits, n + 1)
    ELSE FormatNat(n \div 10) \o CharAt(Digits, (n % 10) + 1)

FormatNum(n) == IF n < 0 THEN "-" \o FormatNat(0 - n) ELSE FormatNat(n)

IsDigits(s) ==
    Len(s) > 0 /\ \A i \in 1..Len(s) : CharAt(s, i) \in DOMAIN DigitValue

RECURSIVE ParseNat(_)
ParseNat(s) ==
    IF Len(s) = 0 THEN 0
    ELSE 10 * ParseNat(SubSeq(s, 1, Len(s) - 1)) + DigitValue[CharAt(s, Len(s))]

\* Whether pd.to_numeric parses the text (whole numbers; surrounding blanks
\* are skipped by the parser).
IsNumericText(s) ==
    LET t == Strip(s)
    IN  IsDigits(t) \/ (Len(t) > 1 /\ CharAt(t, 1) = "-" /\ IsDigits(SubSeq(t, 2, Len(t))))

ParseNum(s) ==
    LET t == Strip(s)
    IN  IF CharAt(t, 1) = "-" THEN 0 - ParseNat(SubSeq(t, 2, Len(t))) ELSE ParseNat(t)

-----------------------------------------------------------------------------
\* DataFrame values: a number or a string.

Num(n) == [k |-> "num", n |-> n, s |-> ""]
Str(s) == [k |-> "str", n |-> 0, s |-> s]

\* What get_all_values returns for a cell update() or append_row() wrote.
CellText(v) == IF v.k = "num" THEN FormatNum(v.n) ELSE v.s

\* pd.to_numeric(..., errors='coerce').fillna(0) on one cell
to_numeric(s) == IF IsNumericText(s) THEN Num(ParseNum(s)) ELSE Num(0)

EmptyDF == [columns |-> <<>>, rows |-> <<>>]

\* DataFrame.empty
df_empty(df) == Len(df.columns) = 0 \/ Len(df.rows) = 0

NumericKeywords == {"qty", "total", "cost", "value", "func", "life", "age"}

IsNumericCol(col) ==
    LET low == Lower(col) IN \E k \in NumericKeywords : Contains(k, low)

Count(seq, x) == Cardinality({i \in 1..Len(seq) : seq[i] = x})

\* load_data lines 94-101, for a worksheet handle that is not None.  Assigning
\* df[col] for a col that names two columns hands pd.to_numeric a DataFrame,
\* which raises TypeError.
load_grid(grid) ==
    IF Len(grid) < 2 THEN [exc |-> "none", df |-> EmptyDF]
    ELSE LET headers == [j \in 1..Len(grid[1]) |-> Strip(grid[1][j])]
             numeric == [j \in 1..Len(headers) |-> IsNumericCol(headers[j])]
         IN  IF \E j \in 1..Len(headers) : numeric[j] /\ Count(headers, headers[j]) > 1
             THEN [exc |-> "TypeError", df |-> EmptyDF]
             ELSE [exc |-> "none",
                   df |-> [columns |-> headers,
                           rows |-> [r \in 1..(Len(grid) - 1) |->
                                       [j \in 1..Len(headers) |->
                                          IF numeric[j] THEN to_numeric(grid[r + 1][j])
                                          ELSE Str(grid[r + 1][j])]]]]

\* load_data without the guard of line 93: None.get_all_values() raises.
load_data_unguarded(ok, grid) ==
    IF ~ok THEN [exc |-> "AttributeError", df |-> EmptyDF] ELSE load_grid(grid)

\* load_data(worksheet): ok is the handle's truth value, grid what
\* get_all_values returns.
load_data(ok, grid) ==
    IF ~ok THEN [exc |-> "none", df |-> EmptyDF] ELSE load_grid(grid)

-----------------------------------------------------------------------------
\* Grids.  get_all_values pads every row to the width of the widest.

Width(grid) == IF Len(grid) = 0 THEN 0 ELSE Len(grid[1])

Max(a, b) == IF a >= b THEN a ELSE b

PadRow(row, w) == [j \in 1..w |-> IF j <= Len(row) THEN row[j] ELSE ""]

\* worksheet.append_row(values): a new row below the last one, from column A.
append_row(grid, values) ==
    LET w == Max(Width(grid), Len(values))
    IN  Append([r \in 1..Len(grid) |-> PadRow(grid[r], w)],
               PadRow([j \in 1..Len(values) |-> CellText(values[j])], w))

\* worksheet.update(values): the rectangle of values is written from A1.
update(grid, values) ==
    LET h == Max(Len(grid), Len(values))
        w == Max(Width(grid), Width(values))
    IN  IF Width(values) = 0 THEN grid
        ELSE [r \in 1..h |->
                [j \in 1..w |->
                   IF r <= Len(values) /\ j <= Width(values) THEN CellText(values[r][j])
                   ELSE IF r <= Len(grid) /\ j <= Width(grid) THEN grid[r][j]
                   ELSE ""]]

\* The cells update(values) writes.
update_cells(values) ==
    {<<r, j>> : r \in 1..Len(values), j \in 1..Width(values)}

\* st.data_editor(df_inv): the frame with the user's edited cells in place.
data_editor(df, ed) ==
    [columns |-> df.columns,
     rows |-> [r \in 1..Len(df.rows) |->
                 [j \in 1..Len(df.columns) |->
                    IF <<r, j>> \in DOMAIN ed THEN ed[<<r, j>>] ELSE df.rows[r][j]]]]

\* [edited_df.columns.values.tolist()] + edited_df.values.tolist()
sync_values(edf) ==
    <<[j \in 1..Len(edf.columns) |-> Str(edf.columns[j])]>> \o edf.rows

-----------------------------------------------------------------------------
\* Authentication.

get(ss, key) == IF key \in DOMAIN ss THEN ss[key] ELSE "None"

\* password_entered, the Login button's callback
password_entered(ss) ==
    IF get(ss, "username") = "admin" /\ get(ss, "password") = "aae123"
    THEN [key \in (DOMAIN ss \cup {"password_correct"}) \ {"password", "username"} |-> TRUE]
    ELSE [key \in DOMAIN ss \cup {"password_correct"} |->
            IF key = "password_correct" THEN FALSE ELSE ss[key]]

\* check_password with the test of line 28 dropped: any entry of the key passes.
check_password_any(ss) == "password_correct" \in DOMAIN ss

\* check_password's result (lines 20-36)
check_password(ss) ==
    "password_correct" \in DOMAIN ss /\ ss["password_correct"] = TRUE

\* The Logout button's assignment (line 133)
logout(ss) ==
    [key \in DOMAIN ss \cup {"password_correct"} |->
       IF key = "password_correct" THEN FALSE ELSE ss[key]]

-----------------------------------------------------------------------------
\* The Smart Dashboard (lines 138-211).

\* Positions the dashboard reads, 1-based (df_inv.columns[7] is position 8, ...).
v_pos == 8
q_pos == 5
f_pos == 6
c_pos == 1
s_pos == 2
id_pos == 3
life_pos == 9
used_pos == 10

\* Positions of the row Add New Asset appends (line 223) that no page reads:
\* a_cost and the trailing 0.
cost_pos == 7
nonfunc_pos == 11

RECURSIVE SumNum(_, _)
SumNum(rows, j) ==
    IF Len(rows) = 0 THEN 0 ELSE rows[1][j].n + SumNum(Tail(rows), j)

\* Series.sum() of a column of strings: their concatenation.
RECURSIVE SumStr(_, _)
SumStr(rows, j) ==
    IF Len(rows) = 0 THEN "" ELSE rows[1][j].s \o SumStr(Tail(rows), j)

Clip(x, lo, hi) == IF x < lo THEN lo ELSE IF x > hi THEN hi ELSE x

\* ((life - used) / life * 100).clip(0, 100).fillna(0), to whole percents
Remaining(life, used) ==
    IF life = 0 THEN (IF used < 0 THEN 100 ELSE 0)
    ELSE IF life > 0 THEN Clip(((life - used) * 100) \div life, 0, 100)
    ELSE Clip(((used - life) * 100) \div (0 - life), 0, 100)

\* df_inv['Remaining %'] = ... (line 158)
with_remaining(df) ==
    LET rem(r) == Num(Remaining(df.rows[r][life_pos].n, df.rows[r][used_pos].n))
    IN  IF \E j \in 1..Len(df.columns) : df.columns[j] = "Remaining %"
        THEN [columns |-> df.columns,
              rows |-> [r \in 1..Len(df.rows) |->
                          [j \in 1..Len(df.columns) |->
                             IF df.columns[j] = "Remaining %" THEN rem(r)
                             ELSE df.rows[r][j]]]]
        ELSE [columns |-> Append(df.columns, "Remaining %"),
              rows |-> [r \in 1..Len(df.rows) |-> Append(df.rows[r], rem(r))]]

HasCol(df, name) == \E j \in 1..Len(df.columns) : df.columns[j] = name

\* The first exception the dashboard's statements raise on a non-empty
\* inventory, in source order, with the line that raises it (0: none).  A column
\* name that occurs twice makes df[name] a DataFrame; a column load_data did not
\* coerce holds strings.
dashboard_exc(dfi, dfm, dfp) ==
    LET cols == dfi.columns
        dup(j) == Count(cols, cols[j]) > 1
        num(j) == IsNumericCol(cols[j])
        qsum == SumNum(dfi.rows, q_pos)
        raise(e, line) == [exc |-> e, line |-> line]
    IN  IF Len(cols) < 10 THEN raise("IndexError", 142)
        ELSE IF dup(v_pos) THEN raise("TypeError", 147)
        ELSE IF ~num(v_pos) THEN raise("ValueError", 147)
        ELSE IF dup(q_pos) THEN raise("TypeError", 148)
        ELSE IF ~num(q_pos) THEN
                 (IF IsNumericText(SumStr(dfi.rows, q_pos)) THEN raise("TypeError", 149)
                  ELSE raise("ValueError", 148))
        ELSE IF qsum > 0 /\ (dup(f_pos) \/ ~num(f_pos)) THEN raise("TypeError", 149)
        ELSE IF dup(life_pos) \/ dup(used_pos) THEN raise("ValueError", 158)
        ELSE IF ~num(life_pos) \/ ~num(used_pos) THEN raise("TypeError", 158)
        ELSE IF dup(s_pos) \/ dup(id_pos) THEN raise("ValueError", 160)
        ELSE IF dup(c_pos) \/ dup(f_pos) THEN raise("ValueError", 174)
        ELSE IF ~num(f_pos) THEN raise("TypeError", 175)
        ELSE IF ~df_empty(dfm) /\ ~(HasCol(dfm, "Category") /\ HasCol(dfm, "Failure Cause"))
             THEN raise("KeyError", 192)
        ELSE IF ~df_empty(dfp) /\ ~HasCol(dfp, "Category") THEN raise("KeyError", 207)
        ELSE raise("none", 0)

\* The dashboard without the df_inv.empty test of line 139.
dashboard_unguarded(dfi, dfm, dfp) ==
    LET x == dashboard_exc(dfi, dfm, dfp)
    IN  [exc |-> x.exc,
         shown |-> IF x.exc = "none" THEN "dashboard" ELSE "crash_page",
         df |-> dfi]

\* The Smart Dashboard branch: what it raises, what it shows, and df_inv after it.
dashboard(dfi, dfm, dfp) ==
    IF df_empty(dfi) THEN [exc |-> "none", shown |-> "empty_notice", df |-> dfi]
    ELSE LET x == dashboard_exc(dfi, dfm, dfp)
         IN  [exc |-> x.exc,
              shown |-> IF x.exc = "none" THEN "dashboard" ELSE "crash_page",
              df |-> IF x.line = 0 \/ x.line > 158 THEN with_remaining(dfi) ELSE dfi]

-----------------------------------------------------------------------------
\* The spreadsheet.

MaintHeader == <<"Date", "Category", "Subsystem", "Asset Code", "Failure Cause", "Technician">>
PrevHeader == <<"Date", "Category", "Subsystem", "Asset Code", "Task Performed", "Status">>

Today == "2026-11-01"

\* init_connection (lines 66-88): the handles, the log sheets after it (a
\* missing one is created with its header row) and the operations it performed.
init_connection(sec, ml, pl) ==
    IF ~sec THEN [ok |-> FALSE, maint |-> ml, prev |-> pl]
    ELSE [ok |-> TRUE,
          maint |-> IF ml.exists THEN ml
                    ELSE [exists |-> TRUE, grid |-> append_row(<<>>, [j \in 1..6 |-> Str(MaintHeader[j])])],
          prev |-> IF pl.exists THEN pl
                   ELSE [exists |-> TRUE, grid |-> append_row(<<>>, [j \in 1..6 |-> Str(PrevHeader[j])])]]

\* The row Add New Asset appends (line 223).
asset_row(sel_cat, sel_sub, a_code, a_qty, a_cost) ==
    <<Str(sel_cat), Str(sel_sub), Str(a_code), Str("Nos"), Num(a_qty), Num(a_qty),
      Num(a_cost), Num(a_qty * a_cost), Num(10), Num(0), Num(0)>>

\* The rows the log forms append (lines 236, 250).
maint_row(m_cat, m_sub, m_code, m_cause, m_tech) ==
    <<Str(Today), Str(m_cat), Str(m_sub), Str(m_code), Str(m_cause), Str(m_tech)>>

prev_row(p_cat, p_sub, p_code, p_task, p_stat) ==
    <<Str(Today), Str(p_cat), Str(p_sub), Str(p_code), Str(p_task), Str(p_stat)>>

-----------------------------------------------------------------------------
\* Inputs.

Menus == {"Smart Dashboard", "Asset Registry", "Add New Asset", "Failure Logs",
          "Preventive Maintenance"}

Credentials == {<<"admin", "aae123">>, <<"guest", "aae123">>, <<"admin", "letmein">>}

AddQtys == {2}
AddCosts == {5}
EditNums == {15}
EditTexts == {"x"}
ExtTexts == {"9"}
EditCols == {1, f_pos, cost_pos}  \* the columns the user edits
ExtCols == {2, q_pos}             \* the columns other clients edit

NoForm == [code |-> "", qty |-> 0, cost |-> 0]

InvHeader == <<"Category", "Subsystem", "Code", "Unit", "Qty", "Func Qty",
               "Unit Cost", "Total Value", "Life", "Age", "Non-Func Qty">>

\* Sheets the app can be pointed at: empty, header only, narrow sheets with
\* malformed cells, repeated and blank header names, a blank row above the
\* header, and the eleven-column layout Add New Asset writes.
InitGrids ==
    { <<>>,
      << <<"Qty", "Cost">> >>,
      << <<"Qty", " Cost">>, <<"07", "abc">> >>,
      << <<"Qty", "Qty">>, <<"1", "2">> >>,
      << <<"", "Name ", "Name">>, <<"x", "", "y">> >>,
      << <<"", "">>, <<"Qty", "Cost">>, <<"1", "2">> >>,
      << InvHeader,
         <<"CCTV System", "Lane Camera", "A1", "Nos", "10", "7", "5", "50", "10", "2", "3">> >> }

InitMaint ==
    { [exists |-> FALSE, grid |-> <<>>],
      [exists |-> TRUE,
       grid |-> << <<"Date", "Cat", "Subsystem", "Asset Code", "Cause", "Technician">>,
                   <<Today, "CCTV System", "Lane Camera", "A1", "Vandalism", "T">> >>] }

InitPrev ==
    { [exists |-> FALSE, grid |-> <<>>] }

-----------------------------------------------------------------------------
\* The state after the first run of a fresh session: the login form.

Init ==
    /\ session_state = <<>>
    /\ menu = "Smart Dashboard"
    /\ secrets \in BOOLEAN
    /\ sheet1 \in InitGrids
    /\ maint_log \in InitMaint
    /\ prev_log \in InitPrev
    /\ pc = "idle"
    /\ click = "none"
    /\ form = NoForm
    /\ inv_ws = FALSE
    /\ data_inv = <<>>
    /\ df_inv = EmptyDF
    /\ df_maint = EmptyDF
    /\ df_prev = EmptyDF
    /\ edits = <<>>
    /\ exc = "none"
    /\ shown = "login"
    /\ io = {}
    /\ authed = FALSE
    /\ written = {}
    /\ writes = 0

\* A run of the script from line 1 to line 130, started with session state ss,
\* menu m, editor state ed, pressed button clk and form inputs frm.
Begin(ss, m, ed, clk, frm) ==
    LET ok == check_password(ss)
        conn == init_connection(secrets, maint_log, prev_log)
        li == load_data(conn.ok, sheet1)
        lm == load_data(conn.ok, conn.maint.grid)
        lp == load_data(conn.ok, conn.prev.grid)
        e == IF li.exc # "none" THEN li.exc
             ELSE IF lm.exc # "none" THEN lm.exc ELSE lp.exc
    IN  /\ session_state' = ss
        /\ menu' = IF ok THEN m ELSE "Smart Dashboard"
        /\ authed' = ok
        /\ written' = {}
        /\ writes' = IF clk \in {"sync", "add", "maint", "pm"} THEN writes + 1 ELSE writes
        /\ UNCHANGED <<secrets, sheet1>>
        /\ IF ~ok
           THEN /\ shown' = "login"
                /\ pc' = "idle"
                /\ io' = {}
                /\ exc' = "none"
                /\ click' = "none"
                /\ form' = NoForm
                /\ edits' = <<>>
                /\ inv_ws' = FALSE
                /\ data_inv' = <<>>
                /\ df_inv' = EmptyDF
                /\ df_maint' = EmptyDF
                /\ df_prev' = EmptyDF
                /\ UNCHANGED <<maint_log, prev_log>>
           ELSE /\ maint_log' = conn.maint
                /\ prev_log' = conn.prev
                /\ inv_ws' = conn.ok
                /\ io' = {"init_connection", "load_data"}
                /\ data_inv' = IF conn.ok THEN sheet1 ELSE <<>>
                /\ df_inv' = li.df
                /\ df_maint' = IF li.exc = "none" THEN lm.df ELSE EmptyDF
                /\ df_prev' = IF li.exc = "none" /\ lm.exc = "none" THEN lp.df ELSE EmptyDF
                /\ exc' = e
                /\ IF e # "none"
                   THEN /\ shown' = "crash_load"
                        /\ pc' = "idle"
                        /\ click' = "none"
                        /\ form' = NoForm
                        /\ edits' = <<>>
                   ELSE /\ shown' = "header"
                        /\ pc' = "loaded"
                        /\ click' = clk
                        /\ form' = frm
                        /\ edits' = ed

Sidebar == pc = "idle" /\ authed /\ shown \notin {"login", "crash_load"}

-----------------------------------------------------------------------------
\* User interactions.  Each starts a run of the script.

\* Any interaction that changes nothing (the R key).
Rerun ==
    /\ pc = "idle"
    /\ Begin(session_state, menu, edits, "none", NoForm)

\* The two text inputs of the login form (lines 24-25, 31-32).
TypeCredentials ==
    /\ pc = "idle"
    /\ shown = "login"
    /\ \E cr \in Credentials :
          Begin([key \in DOMAIN session_state \cup {"username", "password"} |->
                   IF key = "username" THEN cr[1]
                   ELSE IF key = "password" THEN cr[2] ELSE session_state[key]],
                menu, edits, "none", NoForm)

\* The Login button: its callback runs, then the script.
ClickLogin ==
    /\ pc = "idle"
    /\ shown = "login"
    /\ Begin(password_entered(session_state), menu, edits, "none", NoForm)

\* The sidebar radio (line 136).
SelectMenu ==
    /\ Sidebar
    /\ \E m \in Menus \ {menu} : Begin(session_state, m, <<>>, "none", NoForm)

\* The Logout button (line 132).  The run ends at line 134, before the data
\* editor is drawn, so the editor's pending edits are dropped.
ClickLogout ==
    /\ Sidebar
    /\ Begin(session_state, menu, <<>>, "logout", NoForm)

\* An edit of one cell in the data editor (line 256): a number in a numeric
\* column, a text elsewhere.
EditCell ==
    /\ pc = "idle"
    /\ shown = "registry"
    /\ \E r \in 1..Len(df_inv.rows), j \in 1..Len(df_inv.columns) \cap EditCols :
          /\ <<r, j>> \in DOMAIN edits \/ Cardinality(DOMAIN edits) < MaxEdits
          /\ \E v \in IF df_inv.rows[r][j].k = "num"
                      THEN {Num(n) : n \in EditNums} ELSE {Str(t) : t \in EditTexts} :
                Begin(session_state, menu,
                      [c \in DOMAIN edits \cup {<<r, j>>} |->
                         IF c = <<r, j>> THEN v ELSE edits[c]],
                      "none", NoForm)

\* The Sync Database button (line 257).
ClickSync ==
    /\ pc = "idle"
    /\ shown = "registry"
    /\ writes < MaxWrites
    /\ Begin(session_state, menu, edits, "sync", NoForm)

\* The reg_form's submit button (line 222).
SubmitAdd ==
    /\ pc = "idle"
    /\ shown = "add"
    /\ writes < MaxWrites
    /\ \E q \in AddQtys, c \in AddCosts :
          Begin(session_state, menu, edits, "add", [code |-> "A2", qty |-> q, cost |-> c])

\* The maint_form's submit button (line 235).
SubmitMaint ==
    /\ pc = "idle"
    /\ shown = "maint"
    /\ writes < MaxWrites
    /\ Begin(session_state, menu, edits, "maint", NoForm)

\* The preventive_form's submit button (line 249).
SubmitPM ==
    /\ pc = "idle"
    /\ shown = "pm"
    /\ writes < MaxWrites
    /\ Begin(session_state, menu, edits, "pm", NoForm)

-----------------------------------------------------------------------------
\* The rest of a run: line 132 to the end.

\* The Logout button was pressed: line 133, then st.rerun().
PageLogout ==
    /\ pc = "loaded"
    /\ click = "logout"
    /\ session_state' = logout(session_state)
    /\ pc' = "rerun"
    /\ UNCHANGED <<menu, secrets, sheet1, maint_log, prev_log, click, form, inv_ws,
                   data_inv, df_inv, df_maint, df_prev, edits, exc, shown, io, authed,
                   written, writes>>

\* st.rerun(): the script starts again.
AutoRerun ==
    /\ pc = "rerun"
    /\ Begin(session_state, menu, edits, "none", NoForm)

PageDashboard ==
    /\ pc = "loaded"
    /\ click # "logout"
    /\ menu = "Smart Dashboard"
    /\ LET d == dashboard(df_inv, df_maint, df_prev)
       IN  /\ exc' = d.exc
           /\ shown' = d.shown
           /\ df_inv' = d.df
    /\ pc' = "idle"
    /\ UNCHANGED <<session_state, menu, secrets, sheet1, maint_log, prev_log, click,
                   form, inv_ws, data_inv, df_maint, df_prev, edits, io, authed,
                   written, writes>>

\* Asset Registry (lines 254-259).  A None handle has no update().
PageRegistry ==
    /\ pc = "loaded"
    /\ click # "logout"
    /\ menu = "Asset Registry"
    /\ LET edited_df == data_editor(df_inv, edits)
           values == sync_values(edited_df)
       IN  IF click # "sync"
           THEN /\ shown' = "registry"
                /\ pc' = "idle"
                /\ UNCHANGED <<sheet1, exc, io, written, edits>>
           ELSE IF ~inv_ws
           THEN /\ exc' = "AttributeError"
                /\ shown' = "crash_page"
                /\ pc' = "idle"
                /\ UNCHANGED <<sheet1, io, written, edits>>
           ELSE /\ sheet1' = update(sheet1, values)
                /\ written' = IF Width(values) = 0 THEN {} ELSE update_cells(values)
                /\ io' = io \cup {"update"}
                /\ edits' = <<>>
                /\ pc' = "rerun"
                /\ UNCHANGED <<exc, shown>>
    /\ UNCHANGED <<session_state, menu, secrets, maint_log, prev_log, click, form,
                   inv_ws, data_inv, df_inv, df_maint, df_prev, authed, writes>>

\* Add New Asset (lines 213-224).
PageAdd ==
    /\ pc = "loaded"
    /\ click # "logout"
    /\ menu = "Add New Asset"
    /\ IF click # "add"
       THEN /\ shown' = "add"
            /\ pc' = "idle"
            /\ UNCHANGED <<sheet1, exc, io>>
       ELSE IF ~inv_ws
       THEN /\ exc' = "AttributeError"
            /\ shown' = "crash_page"
            /\ pc' = "idle"
            /\ UNCHANGED <<sheet1, io>>
       ELSE /\ sheet1' = append_row(sheet1, asset_row("CCTV System", "Lane Camera",
                                                       form.code, form.qty, form.cost))
            /\ io' = io \cup {"append_row"}
            /\ pc' = "rerun"
            /\ UNCHANGED <<exc, shown>>
    /\ UNCHANGED <<session_state, menu, secrets, maint_log, prev_log, click, form,
                   inv_ws, data_inv, df_inv, df_maint, df_prev, edits, authed, written,
                   writes>>

\* Failure Logs (lines 226-238).
PageMaint ==
    /\ pc = "loaded"
    /\ click # "logout"
    /\ menu = "Failure Logs"
    /\ IF click # "maint"
       THEN /\ shown' = "maint"
            /\ pc' = "idle"
            /\ UNCHANGED <<maint_log, exc, io>>
       ELSE IF ~inv_ws
       THEN /\ exc' = "AttributeError"
            /\ shown' = "crash_page"
            /\ pc' = "idle"
            /\ UNCHANGED <<maint_log, io>>
       ELSE /\ maint_log' = [maint_log EXCEPT !.grid =
                               append_row(@, maint_row("CCTV System", "Lane Camera", "A1",
                                                       "Lens Fogging", "T"))]
            /\ io' = io \cup {"append_row"}
            /\ pc' = "rerun"
            /\ UNCHANGED <<exc, shown>>
    /\ UNCHANGED <<session_state, menu, secrets, sheet1, prev_log, click, form, inv_ws,
                   data_inv, df_inv, df_maint, df_prev, edits, authed, written, writes>>

\* Preventive Maintenance (lines 240-252).
PagePM ==
    /\ pc = "loaded"
    /\ click # "logout"
    /\ menu = "Preventive Maintenance"
    /\ IF click # "pm"
       THEN /\ shown' = "pm"
            /\ pc' = "idle"
            /\ UNCHANGED <<prev_log, exc, io>>
       ELSE IF ~inv_ws
       THEN /\ exc' = "AttributeError"
            /\ shown' = "crash_page"
            /\ pc' = "idle"
            /\ UNCHANGED <<prev_log, io>>
       ELSE /\ prev_log' = [prev_log EXCEPT !.grid =
                              append_row(@, prev_row("CCTV System", "Lane Camera", "A1",
                                                     "Lens Cleaning", "Good"))]
            /\ io' = io \cup {"append_row"}
            /\ pc' = "rerun"
            /\ UNCHANGED <<exc, shown>>
    /\ UNCHANGED <<session_state, menu, secrets, sheet1, maint_log, click, form, inv_ws,
                   data_inv, df_inv, df_maint, df_prev, edits, authed, written, writes>>

\* Another client of the spreadsheet overwrites one cell of Sheet1 while a
\* syncing run is between its read and its write.  (An edit made at another
\* time is read by the next run like any other content of the sheet; one such
\* edit per run.)
ExternalEdit ==
    /\ pc = "loaded"
    /\ click = "sync"
    /\ sheet1 = data_inv
    /\ \E r \in 1..Len(sheet1), j \in 1..Width(sheet1) \cap ExtCols, t \in ExtTexts :
          /\ sheet1[r][j] # t
          /\ sheet1' = [sheet1 EXCEPT ![r][j] = t]
    /\ UNCHANGED <<session_state, menu, secrets, maint_log, prev_log, pc, click, form,
                   inv_ws, data_inv, df_inv, df_maint, df_prev, edits, exc, shown, io,
                   authed, written, writes>>

Next ==
    \/ Rerun
    \/ TypeCredentials
    \/ ClickLogin
    \/ SelectMenu
    \/ ClickLogout
    \/ EditCell
    \/ ClickSync
    \/ SubmitAdd
    \/ SubmitMaint
    \/ SubmitPM
    \/ PageLogout
    \/ AutoRerun
    \/ PageDashboard
    \/ PageRegistry
    \/ PageAdd
    \/ PageMaint
    \/ PagePM
    \/ ExternalEdit

Spec == Init /\ [][Next]_vars

-----------------------------------------------------------------------------
\* Properties.

\* A run got past line 130 with a worksheet handle: df_inv is what load_data
\* made of data_inv.
InvLoaded == authed /\ inv_ws /\ shown # "crash_load"

\* A page has been rendered by a run that passed the login.
PageRendered == pc = "idle" /\ authed /\ shown \notin {"login", "crash_load"}

\* The step in which Sync Database writes the table back.
SyncWrite ==
    pc = "loaded" /\ click = "sync" /\ menu = "Asset Registry" /\ inv_ws /\ pc' = "rerun"

IsNum(v) == v.k = "num"

\* Rows of the sheet as data rows: the texts of the cells, parsed.
SheetNumeric(row, j) == j <= Len(row) /\ IsNumericText(row[j])

\* C1: every row of the loaded table, and every row a sync has written back,
\* has Total Value = Quantity * Unit Cost whenever Quantity and Unit Cost are
\* numeric.
C1_TotalValueConsistent ==
    /\ InvLoaded =>
         \A r \in 1..Len(df_inv.rows) :
            LET row == df_inv.rows[r]
            IN  (Len(row) >= v_pos /\ IsNum(row[q_pos]) /\ IsNum(row[cost_pos]))
                  => row[v_pos] = Num(row[q_pos].n * row[cost_pos].n)
    /\ written # {} =>
         \A r \in 2..Len(sheet1) :
            LET row == sheet1[r]
            IN  (SheetNumeric(row, q_pos) /\ SheetNumeric(row, cost_pos)
                   /\ IsNumericCol(Strip(sheet1[1][q_pos]))
                   /\ IsNumericCol(Strip(sheet1[1][cost_pos])))
                  => /\ SheetNumeric(row, v_pos)
                     /\ ParseNum(row[v_pos]) = ParseNum(row[q_pos]) * ParseNum(row[cost_pos])

\* C2: every row of the loaded table, and every row a sync has written back,
\* has 0 <= Functional Qty <= Quantity, Non-Functional Qty >= 0 and
\* Functional Qty + Non-Functional Qty = Quantity.
C2_FunctionalWithinQuantity ==
    /\ InvLoaded =>
         \A r \in 1..Len(df_inv.rows) :
            LET row == df_inv.rows[r]
            IN  (Len(row) >= nonfunc_pos /\ IsNum(row[q_pos]) /\ IsNum(row[f_pos])
                   /\ IsNum(row[nonfunc_pos]))
                  => /\ 0 <= row[f_pos].n
                     /\ row[f_pos].n <= row[q_pos].n
                     /\ row[nonfunc_pos].n >= 0
                     /\ row[f_pos].n + row[nonfunc_pos].n = row[q_pos].n
    /\ written # {} =>
         \A r \in 2..Len(sheet1) :
            LET row == sheet1[r]
            IN  (SheetNumeric(row, q_pos) /\ SheetNumeric(row, f_pos)
                   /\ SheetNumeric(row, nonfunc_pos)
                   /\ IsNumericCol(Strip(sheet1[1][q_pos]))
                   /\ IsNumericCol(Strip(sheet1[1][f_pos]))
                   /\ IsNumericCol(Strip(sheet1[1][nonfunc_pos])))
                  => /\ 0 <= ParseNum(row[f_pos])
                     /\ ParseNum(row[f_pos]) <= ParseNum(row[q_pos])
                     /\ ParseNum(row[nonfunc_pos]) >= 0
                     /\ ParseNum(row[f_pos]) + ParseNum(row[nonfunc_pos]) = ParseNum(row[q_pos])

\* The sheet cells of the data-editor cells the user edited (data row r is
\* sheet row r + 1).
EditedCells == {<<c[1] + 1, c[2]>> : c \in DOMAIN edits}

\* C3: Sync Database writes only the cells the user edited, so a cell that
\* another client changed between this run's read and its sync, and that the
\* user did not edit, has that client's content after the sync.
C3_SyncKeepsOtherClientsEdits ==
    [][SyncWrite =>
         \A r \in 1..Len(sheet1), j \in 1..Width(sheet1) :
            (<<r, j>> \notin EditedCells /\ sheet1[r][j] # data_inv[r][j])
               => sheet1'[r][j] = sheet1[r][j]]_vars

\* C4: a sync that follows its load with no user edit writes no cell and
\* leaves the sheet as it was.
C4_LoadSaveIdempotent ==
    [][(SyncWrite /\ DOMAIN edits = {} /\ sheet1 = data_inv) =>
         (written' = {} /\ sheet1' = sheet1)]_vars

\* C5: load_data never raises, and a cell of a numeric column whose text is
\* blank or not a number is loaded as the number zero.
C5_CoercionTotal ==
    /\ shown # "crash_load"
    /\ InvLoaded =>
         \A r \in 1..Len(df_inv.rows), j \in 1..Width(data_inv) :
            IsNumericCol(df_inv.columns[j]) =>
               /\ IsNum(df_inv.rows[r][j])
               /\ ~IsNumericText(data_inv[r + 1][j]) => df_inv.rows[r][j] = Num(0)

\* The number of cells header[1..j] whose stripped text is that of header[j].
Occurrence(header, j) ==
    Cardinality({i \in 1..j : Strip(header[i]) = Strip(header[j])})

\* C6: the column names of a loaded table are non-empty and pairwise distinct;
\* a blank header cell is named "Col_<position>" and the Nth repeat of a name
\* "<name>_<N>".
C6_HeadersUniqueNonEmpty ==
    (InvLoaded /\ ~df_empty(df_inv)) =>
        /\ \A j \in 1..Len(df_inv.columns) : df_inv.columns[j] # ""
        /\ \A i, j \in 1..Len(df_inv.columns) :
              i # j => df_inv.columns[i] # df_inv.columns[j]
        /\ \A j \in 1..Width(data_inv) :
              LET name == Strip(data_inv[1][j])
                  n == Occurrence(data_inv[1], j)
              IN  /\ name = "" => df_inv.columns[j] = "Col_" \o FormatNum(j)
                  /\ (name # "" /\ n >= 2) =>
                        df_inv.columns[j] = name \o "_" \o FormatNum(n)

IsBlankRow(row) == \A j \in 1..Len(row) : Strip(row[j]) = ""

\* The first row of the grid with a non-blank cell (0: there is none).
FirstNonBlankRow(grid) ==
    IF \A r \in 1..Len(grid) : IsBlankRow(grid[r]) THEN 0
    ELSE CHOOSE r \in 1..Len(grid) :
            ~IsBlankRow(grid[r]) /\ \A q \in 1..(r - 1) : IsBlankRow(grid[q])

\* C7: the header row of a loaded table is the first row of the grid with a
\* non-blank cell, and the data rows are the rows below it.
C7_HeaderIsFirstNonBlankRow ==
    (InvLoaded /\ FirstNonBlankRow(data_inv) > 0) =>
        LET h == FirstNonBlankRow(data_inv)
        IN  /\ Len(df_inv.rows) = Len(data_inv) - h
            /\ Len(df_inv.rows) > 0 =>
                  \A j \in 1..Width(data_inv) :
                     Count([i \in 1..Width(data_inv) |-> Strip(data_inv[h][i])],
                           Strip(data_inv[h][j])) = 1
                       => df_inv.columns[j] = Strip(data_inv[h][j])

\* C8: the Smart Dashboard of a non-empty inventory renders without an
\* unhandled exception.
C8_DashboardNeverRaises ==
    (PageRendered /\ menu = "Smart Dashboard" /\ ~df_empty(df_inv)) => exc = "none"

\* C9: with no worksheet handle, an empty grid or a grid of the header row
\* only, load_data returns the empty table without raising and the Smart
\* Dashboard shows the empty-inventory notice.
C9_StructuralErrorsAreValues ==
    (authed /\ pc \in {"idle", "loaded"} /\ (~inv_ws \/ Len(data_inv) < 2)) =>
        /\ shown # "crash_load"
        /\ df_inv = EmptyDF
        /\ (pc = "loaded" \/ menu = "Smart Dashboard") => exc = "none"
        /\ (pc = "idle" /\ menu = "Smart Dashboard") => shown = "empty_notice"

\* A header-only sheet was loaded and the dashboard showed the notice.
C9_Witness ==
    /\ pc = "idle" /\ authed /\ inv_ws /\ Len(data_inv) = 1
    /\ menu = "Smart Dashboard" /\ shown = "empty_notice" /\ df_inv = EmptyDF

Flag(ss) == "password_correct" \in DOMAIN ss /\ ss["password_correct"] = TRUE

\* C10: the spreadsheet is read or written only in a run for which
\* session_state["password_correct"] is True; the flag becomes True only by the
\* Login button's callback with username "admin" and password "aae123"; after
\* Logout, runs stay at the login form until such a login.
C10_AuthenticationGate ==
    /\ [](io # {} => (Flag(session_state) \/ (pc = "rerun" /\ click = "logout")))
    /\ [](~Flag(session_state) /\ pc = "idle" => shown = "login" /\ io = {})
    /\ [][(~Flag(session_state) /\ Flag(session_state')) =>
            /\ pc = "idle" /\ shown = "login"
            /\ get(session_state, "username") = "admin"
            /\ get(session_state, "password") = "aae123"]_vars
    /\ [][(pc' # pc /\ (sheet1' # sheet1 \/ maint_log' # maint_log \/ prev_log' # prev_log))
            => Flag(session_state')]_vars

\* After a sync or a form submission the user logged out, and the run that
\* followed stopped at the login form without touching the spreadsheet.
C10_Witness ==
    /\ "password_correct" \in DOMAIN session_state
    /\ session_state["password_correct"] = FALSE
    /\ writes > 0
    /\ pc = "idle" /\ shown = "login" /\ io = {}

====
